---- MODULE Spec2Model ----
(***************************************************************************)
(* notion2tg: mirror of the first-level Notion pages into pinned Telegram  *)
(* messages (src/bot.py).  The model covers the sync reconciler            *)
(* (TelegramBot.sync, create_post, cleanup_posts), the mapping store kept  *)
(* in a Notion database (NotionHandler.update_sync_database,               *)
(* get_sync_db_mapping) and the text the reconciler sends.  Spec is the    *)
(* bot running its passes; PureSpec applies the renderer (parse_block,     *)
(* _parse_rich_text) and the change test of sync to arguments drawn from   *)
(* bounded sets.                                                           *)
(*                                                                         *)
(* Texts are sequences of one-character strings.  A page identifier is the *)
(* normalized 32-hex identifier; a Telegram message identifier is a        *)
(* positive integer.                                                       *)
(***************************************************************************)
EXTENDS Integers, Sequences, FiniteSets, TLC

\* ------------------------------------------------------------------ bounds
MaxTime == 2      \* last_edited_time values are 1..MaxTime
MaxMsgId == 2     \* messages the chat accepts
MaxRows == 2      \* rows the sync database can hold, archived ones included
MaxLen == 2       \* characters of the plain text of a text run
MaxCells == 2     \* cells of a table row
MaxTableRows == 2 \* rows of a table
MaxBlocks == 3    \* top-level blocks of a page

\* --------------------------------------------------------------- constants
NoMsg == 0        \* message_id "" (bot.py:326), falsy like the empty string
NoTime == 0 - 1   \* last_edited None: no record (bot.py:329)
BadTime == 0 - 2  \* a last_edited_time that date_parser.parse rejects (bot.py:309)

Pages == {"p1", "p2"}
PageOrder == <<"p1", "p2">>   \* order of blocks.children.list

\* -------------------------------------------------------------------- text
Whitespace == {" ", "\n", "\t"}

SKIP_TITLE_PREFIXES ==
    << <<"[", "D", "R", "A", "F", "T", "]">>,
       <<"[", "T", "G", "_", "S", "Y", "N", "C", "]">> >>

\* The grave accent cannot be written in a string of this language: the
\* one-character text of the grave accent is written GraveAccent.
GraveAccent == "<grave>"

MdChars ==
    {"_", "*", "[", "]", "(", ")", "~", GraveAccent, ">", "#", "+", "-", "=", "|",
     "{", "}", ".", "!"}

\* Mutant: the full stop is not escaped.
RECURSIVE escape_markdown_v2_NoDot(_)
escape_markdown_v2_NoDot(text) ==
    IF text = <<>> THEN <<>>
    ELSE (IF Head(text) \in MdChars \ {"."} THEN <<"\\", Head(text)>> ELSE <<Head(text)>>)
         \o escape_markdown_v2_NoDot(Tail(text))

RECURSIVE escape_markdown_v2(_)
escape_markdown_v2(text) ==
    IF text = <<>> THEN <<>>
    ELSE (IF Head(text) \in MdChars THEN <<"\\", Head(text)>> ELSE <<Head(text)>>)
         \o escape_markdown_v2(Tail(text))

HandleChars ==
    {"a", "b", "c", "d", "e", "f", "g", "h", "i", "j", "k", "l", "m", "n", "o",
     "p", "q", "r", "s", "t", "u", "v", "w", "x", "y", "z",
     "A", "B", "C", "D", "E", "F", "G", "H", "I", "J", "K", "L", "M", "N", "O",
     "P", "Q", "R", "S", "T", "U", "V", "W", "X", "Y", "Z",
     "0", "1", "2", "3", "4", "5", "6", "7", "8", "9", "_"}

\* the regex @([a-zA-Z0-9_]+) of re.sub: inHandle is TRUE while the scan is inside
\* the greedy match that follows an "@".
RECURSIVE NickScan(_, _)
NickScan(text, inHandle) ==
    IF text = <<>> THEN <<>>
    ELSE LET c == Head(text) IN
         IF inHandle /\ c \in HandleChars
         THEN (IF c = "_" THEN <<"\\", "_">> ELSE <<c>>) \o NickScan(Tail(text), TRUE)
         ELSE <<c>> \o NickScan(Tail(text), c = "@")

escape_telegram_nicknames(text) == NickScan(text, FALSE)

RECURSIVE LStrip(_)
LStrip(text) ==
    IF text # <<>> /\ Head(text) \in Whitespace THEN LStrip(Tail(text)) ELSE text

RECURSIVE RStrip(_)
RStrip(text) ==
    IF text # <<>> /\ text[Len(text)] \in Whitespace
    THEN RStrip(SubSeq(text, 1, Len(text) - 1))
    ELSE text

Strip(text) == RStrip(LStrip(text))

StartsWith(text, prefix) ==
    /\ Len(text) >= Len(prefix)
    /\ SubSeq(text, 1, Len(prefix)) = prefix

\* Mutant: the title is not stripped before the prefix test.
IsSkipped_NoStrip(title) ==
    \E i \in 1..Len(SKIP_TITLE_PREFIXES) : StartsWith(title, SKIP_TITLE_PREFIXES[i])

\* title.strip().startswith(tuple(SKIP_TITLE_PREFIXES))
IsSkipped(title) ==
    \E i \in 1..Len(SKIP_TITLE_PREFIXES) : StartsWith(Strip(title), SKIP_TITLE_PREFIXES[i])

\* ---------------------------------------------------------------- renderer
\* A text run (rich_text segment): plain_text, href (<<>> when there is no
\* link) and the annotations.
Run(text) ==
    [plain_text |-> text, href |-> <<>>, bold |-> FALSE, italic |-> FALSE,
     strikethrough |-> FALSE, code |-> FALSE, underline |-> FALSE]

Wrap(marker, text, escape) ==
    marker \o (IF escape THEN escape_markdown_v2(text) ELSE text) \o marker

ParseSegment(segment, escape) ==
    LET text == segment.plain_text
        styled ==
            IF segment.bold THEN Wrap(<<"*">>, text, escape)
            ELSE IF segment.italic THEN Wrap(<<"_">>, text, escape)
            ELSE IF segment.strikethrough THEN Wrap(<<"~">>, text, escape)
            ELSE IF segment.code THEN Wrap(<<GraveAccent>>, text, escape)
            ELSE IF segment.underline THEN Wrap(<<"_", "_">>, text, escape)
            ELSE IF escape THEN escape_markdown_v2(text) ELSE text
        nick == IF escape THEN escape_telegram_nicknames(styled) ELSE styled
    IN  IF segment.href # <<>>
        THEN <<"[">> \o nick \o <<"]", "(">> \o segment.href \o <<")">>
        ELSE nick

RECURSIVE parse_rich_text(_, _)
parse_rich_text(rich_text, escape) ==
    IF rich_text = <<>> THEN <<>>
    ELSE ParseSegment(Head(rich_text), escape) \o parse_rich_text(Tail(rich_text), escape)

\* _parse_table_row: the cells of the row, each a rich text rendered with
\* escape=False, joined by " | ".
RECURSIVE JoinCells(_)
JoinCells(cells) ==
    IF cells = <<>> THEN <<>>
    ELSE IF Len(cells) = 1 THEN parse_rich_text(cells[1], FALSE)
    ELSE parse_rich_text(Head(cells), FALSE) \o <<" ", "|", " ">> \o JoinCells(Tail(cells))

parse_table_row(row_block) == JoinCells(row_block.cells)

\* "\n".join(lines) of _parse_table
RECURSIVE JoinRows(_)
JoinRows(rows) ==
    IF rows = <<>> THEN <<>>
    ELSE IF Len(rows) = 1 THEN parse_table_row(rows[1])
    ELSE parse_table_row(Head(rows)) \o <<"\n">> \o JoinRows(Tail(rows))

\* The fence the renderer returns for a code block and for a table: six grave
\* accents and a blank line; neither text nor table_text is part of the
\* returned string (bot.py:119, bot.py:141).
Fence ==
    <<GraveAccent, GraveAccent, GraveAccent, GraveAccent, GraveAccent, GraveAccent,
      "\n", "\n">>

\* _parse_table: the rows are fetched (children_ok is FALSE when the fetch
\* raises, and parse_block then returns ""), rendered and joined into
\* table_text; the returned string is the fence.
parse_table(block) ==
    LET table_text == JoinRows(block.children)
    IN  IF block.children_ok THEN Fence ELSE <<>>

\* The block types whose payload is a rich text only.
TextKinds ==
    {"paragraph", "heading_1", "heading_2", "heading_3", "bulleted_list_item",
     "numbered_list_item", "quote"}

\* The try block of parse_block raises: the block has no type, the payload
\* its type reads is missing (for a callout the icon as well: the icon of a
\* callout without icon is None), the fetch of the children of a toggle or a
\* table raises, or a row of a table has no cells (_parse_table_row is called
\* by _parse_table directly, so the exception leaves _parse_table).
Raises(block) ==
    \/ "type" \notin DOMAIN block
    \/ block.type \in TextKinds /\ "rich_text" \notin DOMAIN block
    \/ block.type = "toggle" /\ ("rich_text" \notin DOMAIN block \/ ~block.children_ok)
    \/ block.type = "callout" /\ {"icon", "rich_text"} \ DOMAIN block # {}
    \/ block.type = "code" /\ {"rich_text", "language"} \ DOMAIN block # {}
    \/ block.type = "image" /\ "url" \notin DOMAIN block
    \/ block.type = "table" /\
           (\/ ~block.children_ok
            \/ \E i \in 1..Len(block.children) : "cells" \notin DOMAIN block.children[i])
    \/ block.type = "table_row" /\ "cells" \notin DOMAIN block

\* parse_block: any exception of the try block is caught and "" is returned.
\* A block is a record with its type and the payload of that type: rich_text
\* for the text kinds, icon for a callout, url for an image, cells for a table
\* row, children and children_ok (the outcome of blocks.children.list) for a
\* toggle and a table.
RECURSIVE parse_block(_)
RECURSIVE JoinBlocks(_)
parse_block(block) ==
    LET t == block.type
        text == parse_rich_text(block.rich_text, TRUE)
    IN  IF Raises(block) THEN <<>>     \* except Exception: return ""
        ELSE IF t = "paragraph" THEN text \o <<"\n", "\n">>
        ELSE IF t \in {"heading_1", "heading_2", "heading_3"}
             THEN <<"*">> \o text \o <<"*", "\n", "\n">>
        ELSE IF t = "bulleted_list_item" THEN <<"\\", "-", " ">> \o text \o <<"\n">>
        ELSE IF t = "numbered_list_item" THEN <<"1", "\\", ".", " ">> \o text \o <<"\n">>
        ELSE IF t = "toggle"
             THEN IF ~block.children_ok THEN <<>>
                  ELSE LET content == Strip(JoinBlocks(block.children))
                       IN  IF content # <<>>
                           THEN <<"*">> \o text \o <<"*", "\n", "|", "|">> \o content
                                \o <<"|", "|", "\n", "\n">>
                           ELSE <<"|", "|">> \o text \o <<"|", "|", "\n", "\n">>
        ELSE IF t = "quote" THEN <<">", " ">> \o text \o <<"\n", "\n">>
        ELSE IF t = "callout" THEN block.icon \o <<" ">> \o text \o <<"\n", "\n">>
        ELSE IF t = "code" THEN Fence
        ELSE IF t = "divider" THEN <<"-", "-", "-", "-", "-", "-", "\n", "\n">>
        ELSE IF t = "image"
             THEN <<"!", "[", "]", "(">> \o block.url \o <<")", "\n", "\n">>
        ELSE IF t = "table" THEN parse_table(block)
        ELSE IF t = "table_row" THEN parse_table_row(block)
        ELSE <<>>

JoinBlocks(blocks) ==
    IF blocks = <<>> THEN <<>>
    ELSE parse_block(Head(blocks)) \o JoinBlocks(Tail(blocks))

\* get_page_content: fetched is FALSE when pages.retrieve or
\* blocks.children.list raises, and the function returns "".
\* Mutant: parse_block has no try block, so the exception of one block
\* reaches the except of get_page_content.
get_page_content_NoBlockTry(fetched, blocks) ==
    IF fetched /\ \A i \in 1..Len(blocks) : ~Raises(blocks[i])
    THEN Strip(JoinBlocks(blocks))
    ELSE <<>>

get_page_content(fetched, blocks) ==
    IF fetched THEN Strip(JoinBlocks(blocks)) ELSE <<>>

\* Mutant: the title goes into the message unescaped.
Message_RawTitle(title, content) ==
    IF content # <<>>
    THEN <<"*">> \o title \o <<"*", "\n", "\n">> \o content
    ELSE <<"*">> \o title \o <<"*">>

\* message of TelegramBot.sync (bot.py:344)
Message(title, content) ==
    IF content # <<>>
    THEN <<"*">> \o escape_markdown_v2(title) \o <<"*", "\n", "\n">> \o content
    ELSE <<"*">> \o escape_markdown_v2(title) \o <<"*">>

\* ----------------------------------------------------------- source inputs
TitleHello == <<"H", "e", "l", "l", "o">>
TitleVersion == <<"v", "1", ".", "0">>
TitleDraft == <<" ", "[", "D", "R", "A", "F", "T", "]", " ", "x">>
Titles == {TitleHello, TitleVersion, TitleDraft}

\* properties.title.title of a page: one text run, or no run at all for an
\* untitled page.  The second page keeps one title.
TitleArrays(p) ==
    IF p = "p1" THEN {<<>>, <<TitleHello>>, <<TitleDraft>>} ELSE {<<TitleVersion>>}

Paragraph(text) == [type |-> "paragraph", rich_text |-> <<Run(text)>>]
BodyWorld == <<Paragraph(<<"W", "o", "r", "l", "d">>)>>
\* The first page holds one paragraph, the second page is empty.
Blocks(p) == IF p = "p1" THEN BodyWorld ELSE <<>>

\* ------------------------------------------------------------ mapping store
\* A row of the sync database: the page identifier held in the link of the
\* title cell, the title, the Telegram URL (<<>> when empty), the date and
\* the archived flag.
TgUrl(tg_post_id) == IF tg_post_id # NoMsg THEN <<"t.me", tg_post_id>> ELSE <<>>

\* re.search(r'/(\d+)$', tg_url) and int(message_id)
MessageIdOf(tg_url) == IF tg_url # <<>> THEN tg_url[Len(tg_url)] ELSE NoMsg

NotionUrl(page_id) == <<"notion.so", page_id>>

\* re.search(r'([0-9a-f]{32})', notion_url)
PageIdOf(notion_url) == notion_url[Len(notion_url)]

\* databases.query returns the rows that are not archived, in order.
ActiveIdx(rows) == {i \in 1..Len(rows) : ~rows[i].archived}

ActivePages(rows) == {PageIdOf(rows[i].notion_url) : i \in ActiveIdx(rows)}

Max(S) == CHOOSE x \in S : \A y \in S : y <= x

\* existing_rows[page_id]["row_id"]: a later row of the query overwrites an
\* earlier one with the same page identifier.
ExistingRows(rows) ==
    [q \in ActivePages(rows) |->
        Max({i \in ActiveIdx(rows) : PageIdOf(rows[i].notion_url) = q})]

Props(item) ==
    [notion_url |-> item.notion_url, title |-> item.title,
     tg_url |-> item.tg_url, date |-> item.dt, archived |-> FALSE]

\* Mutant: every item of sync_data gets a new row.
RECURSIVE UpsertAll_AlwaysCreate(_, _, _)
UpsertAll_AlwaysCreate(rows, existing, sync_data) ==
    IF sync_data = <<>> THEN rows
    ELSE UpsertAll_AlwaysCreate(Append(rows, Props(Head(sync_data))), existing,
                                Tail(sync_data))

RECURSIVE UpsertAll(_, _, _)
UpsertAll(rows, existing, sync_data) ==
    IF sync_data = <<>> THEN rows
    ELSE LET item == Head(sync_data)
             page_id == PageIdOf(item.notion_url)
             next == IF page_id \in DOMAIN existing
                     THEN [rows EXCEPT ![existing[page_id]] = Props(item)]
                     ELSE Append(rows, Props(item))
         IN  UpsertAll(next, existing, Tail(sync_data))

PageIdsInData(sync_data) ==
    {PageIdOf(sync_data[i].notion_url) : i \in 1..Len(sync_data)}

ArchiveMissing(rows, existing, page_ids_in_data) ==
    [i \in 1..Len(rows) |->
        IF \E q \in DOMAIN existing : existing[q] = i /\ q \notin page_ids_in_data
        THEN [rows[i] EXCEPT !.archived = TRUE]
        ELSE rows[i]]

update_sync_database(rows, sync_data) ==
    IF sync_data = <<>> THEN rows
    ELSE LET existing == ExistingRows(rows)
         IN  ArchiveMissing(UpsertAll(rows, existing, sync_data), existing,
                            PageIdsInData(sync_data))

\* Mutant: the reload reads no date from the rows.
get_sync_db_mapping_NoDate(rows) ==
    LET existing == ExistingRows(rows)
    IN  [q \in DOMAIN existing |->
            [message_id |-> MessageIdOf(rows[existing[q]].tg_url),
             last_edited |-> NoTime]]

get_sync_db_mapping(rows) ==
    LET existing == ExistingRows(rows)
    IN  [q \in DOMAIN existing |->
            [message_id |-> MessageIdOf(rows[existing[q]].tg_url),
             last_edited |-> rows[existing[q]].date]]

\* ------------------------------------------------------------- reconciler
\* _to_timestamp: 0 for None, "" and 0, 0 for a string the parser rejects, the
\* epoch seconds otherwise.
to_timestamp(dt) == IF dt = NoTime \/ dt = 0 \/ dt = BadTime THEN 0 ELSE dt

VARIABLES
    source,            \* the Notion workspace: page -> [present, title, time]
    store,             \* rows of the sync database
    pinned,            \* TelegramBot.pinned: page_id -> [message_id, last_edited]
    chat,              \* Telegram chat: the identifier of its latest message
    pc,                \* "idle", "loop", "done": position in sync
    pages,             \* result of get_first_level_pages in this pass
    idx,               \* position of the per-page loop in pages
    current_page_ids,  \* local of sync
    sync_data,         \* local of sync
    calls,             \* requests of this pass, in order: the content fetches
                       \* sent to Notion and the requests sent to Telegram
    unawaited,         \* coroutines this pass created and never awaited
    prior,             \* pinned as it was when this pass started
    stable,            \* the source is as the last pass listed it
    input,             \* argument of a function of the file applied on its own
    output             \* [done, value]: the value the function returned

vars ==
    <<source, store, pinned, chat, pc, pages, idx, current_page_ids, sync_data,
      calls, unawaited, prior, stable, input, output>>

envVars == <<source, stable>>
passVars == <<pages, idx, current_page_ids, sync_data, calls, unawaited, prior>>
pureVars == <<input, output>>
botVars ==
    <<source, store, pinned, chat, pc, pages, idx, current_page_ids, sync_data,
      calls, unawaited, prior, stable>>

\* No function is applied on its own while the bot runs.
NoInput == [kind |-> "none"]
NoOutput == [done |-> FALSE, value |-> <<>>]

BotInit ==
    /\ source \in [Pages -> [present : {FALSE}, title : {<<TitleHello>>, <<TitleVersion>>},
                              time : {1}]]
    /\ \A p \in Pages : source[p].title \in TitleArrays(p)
    /\ store = <<>>
    /\ pinned = get_sync_db_mapping(<<>>)
    /\ chat = 0
    /\ pc = "idle"
    /\ pages = <<>>
    /\ idx = 1
    /\ current_page_ids = {}
    /\ sync_data = <<>>
    /\ calls = <<>>
    /\ unawaited = <<>>
    /\ prior = pinned
    /\ stable = FALSE

Init ==
    /\ BotInit
    /\ input = NoInput
    /\ output = NoOutput

\* ------------------------------------------------------ the Notion workspace
\* A page is created or restored under the root page.
AddPage(p) ==
    /\ pc = "idle"
    /\ ~source[p].present
    /\ source' = [source EXCEPT ![p].present = TRUE]
    /\ stable' = FALSE
    /\ UNCHANGED <<store, pinned, chat, pc>>
    /\ UNCHANGED passVars
    /\ UNCHANGED pureVars

RemovePage(p) ==
    /\ pc = "idle"
    /\ source[p].present
    /\ source' = [source EXCEPT ![p].present = FALSE]
    /\ stable' = FALSE
    /\ UNCHANGED <<store, pinned, chat, pc>>
    /\ UNCHANGED passVars
    /\ UNCHANGED pureVars

\* Only the first page is ever edited: the second page keeps its time.
LastTime(p) == IF p = "p1" THEN MaxTime ELSE 1

\* The content of a page is edited: last_edited_time advances.
EditPage(p) ==
    /\ pc = "idle"
    /\ source[p].present
    /\ source[p].time < LastTime(p)
    /\ source' = [source EXCEPT ![p].time = @ + 1]
    /\ stable' = FALSE
    /\ UNCHANGED <<store, pinned, chat, pc>>
    /\ UNCHANGED passVars
    /\ UNCHANGED pureVars

\* The title of a page is changed (or removed); last_edited_time has minute
\* resolution, so it advances or stays.
RenamePage(p) ==
    /\ pc = "idle"
    /\ source[p].present
    /\ \E t \in TitleArrays(p) \ {source[p].title}, bump \in {0, 1} :
        /\ source[p].time + bump <= LastTime(p)
        /\ source' = [source EXCEPT ![p].title = t, ![p].time = @ + bump]
    /\ stable' = FALSE
    /\ UNCHANGED <<store, pinned, chat, pc>>
    /\ UNCHANGED passVars
    /\ UNCHANGED pureVars

\* ---------------------------------------------------------------- the bot
\* TelegramBot.__init__ after a restart of the process.
Restart ==
    /\ pc = "idle"
    /\ pinned' = get_sync_db_mapping(store)
    /\ pinned' # pinned
    /\ UNCHANGED <<store, chat, pc>>
    /\ UNCHANGED envVars
    /\ UNCHANGED passVars
    /\ UNCHANGED pureVars

RECURSIVE Listing(_)
Listing(order) ==
    IF order = <<>> THEN <<>>
    ELSE (IF source[Head(order)].present
          THEN << [id |-> Head(order), title |-> source[Head(order)].title,
                   last_edited_time |-> source[Head(order)].time] >>
          ELSE <<>>) \o Listing(Tail(order))

\* get_first_level_pages: the list of child pages, or [] on any error.
get_first_level_pages(ok) == IF ok THEN Listing(PageOrder) ELSE <<>>

\* The sync database has room for the rows this pass can create.
CanStart ==
    /\ pc = "idle"
    /\ Len(store) + Cardinality({p \in Pages : source[p].present /\ p \notin ActivePages(store)})
          <= MaxRows

BeginPass(ok) ==
    /\ CanStart
    /\ pages' = get_first_level_pages(ok)
    /\ idx' = 1
    /\ current_page_ids' = {}
    /\ sync_data' = <<>>
    /\ calls' = <<>>
    /\ unawaited' = <<>>
    /\ prior' = pinned
    /\ pc' = "loop"
    /\ UNCHANGED <<store, pinned, chat>>
    /\ UNCHANGED envVars
    /\ UNCHANGED pureVars

ListPages == BeginPass(TRUE)

ListPagesFails == BeginPass(FALSE)

Put(f, k, v) == [q \in DOMAIN f \cup {k} |-> IF q = k THEN v ELSE f[q]]

Call(op, page_id, message_id, text, ok) ==
    [op |-> op, page |-> page_id, message_id |-> message_id, text |-> text, ok |-> ok]

EditOutcomes == {"ok", "edit_fails", "pin_fails"}
CreateOutcomes == {"ok", "send_fails", "pin_fails"}

\* create_post on the bot state st = [pinned, chat, calls]: send_message, then
\* pin_chat_message, then the entry of pinned; an exception of either call is
\* caught and logged and leaves pinned as it was.
create_post(st, page_id, text, last_edited, outcome) ==
    LET new == st.chat + 1
        sent(ok) == Call("send_message", page_id, IF ok THEN new ELSE NoMsg, text, ok)
        pin(ok) == Call("pin_chat_message", page_id, new, <<>>, ok)
    IN  IF outcome = "send_fails"
        THEN [st EXCEPT !.calls = Append(@, sent(FALSE))]
        ELSE IF outcome = "pin_fails"
        THEN [st EXCEPT !.calls = @ \o <<sent(TRUE), pin(FALSE)>>, !.chat = new]
        ELSE [pinned |-> Put(st.pinned, page_id,
                             [message_id |-> new, last_edited |-> last_edited]),
              chat |-> new,
              calls |-> st.calls \o <<sent(TRUE), pin(TRUE)>>]

\* Mutant: create_post runs after the try block whatever its outcome.
edit_and_pin_ThenCreate(st, page_id, tg_post_id, text, last_edited, outcome) ==
    LET edit(ok) == Call("edit_message_text", page_id, tg_post_id, text, ok)
        pin(ok) == Call("pin_chat_message", page_id, tg_post_id, <<>>, ok)
    IN  IF outcome = "edit_fails"
        THEN [st EXCEPT !.calls = Append(@, edit(FALSE))]
        ELSE IF outcome = "pin_fails"
        THEN [st EXCEPT !.calls = @ \o <<edit(TRUE), pin(FALSE)>>]
        ELSE create_post([pinned |-> Put(st.pinned, page_id,
                                         [message_id |-> tg_post_id,
                                          last_edited |-> last_edited]),
                          chat |-> st.chat,
                          calls |-> st.calls \o <<edit(TRUE), pin(TRUE)>>],
                         page_id, text, last_edited, "ok")

\* The try block of sync (bot.py:346-360): edit_message_text, then
\* pin_chat_message, then the entry of pinned.
edit_and_pin(st, page_id, tg_post_id, text, last_edited, outcome) ==
    LET edit(ok) == Call("edit_message_text", page_id, tg_post_id, text, ok)
        pin(ok) == Call("pin_chat_message", page_id, tg_post_id, <<>>, ok)
    IN  IF outcome = "edit_fails"
        THEN [st EXCEPT !.calls = Append(@, edit(FALSE))]
        ELSE IF outcome = "pin_fails"
        THEN [st EXCEPT !.calls = @ \o <<edit(TRUE), pin(FALSE)>>]
        ELSE [pinned |-> Put(st.pinned, page_id,
                             [message_id |-> tg_post_id, last_edited |-> last_edited]),
              chat |-> st.chat,
              calls |-> st.calls \o <<edit(TRUE), pin(TRUE)>>]

BotState == [pinned |-> pinned, chat |-> chat, calls |-> calls]

\* The bot state once get_page_content has been called for a page.
Fetched(st, page_id, ok) ==
    [st EXCEPT !.calls = Append(@, Call("get_page_content", page_id, NoMsg, <<>>, ok))]

InLoop == pc = "loop" /\ idx <= Len(pages)
Cur == pages[idx]
HasTitle == Cur.title # <<>>
CurTitle == Cur.title[1]

\* self.pinned.get(page_id, {}).get("message_id", "")
MessageIdIn(mapping, page_id) ==
    IF page_id \in DOMAIN mapping THEN mapping[page_id].message_id ELSE NoMsg

\* self.pinned.get(page_id, {}).get("last_edited")
LastEditedIn(mapping, page_id) ==
    IF page_id \in DOMAIN mapping THEN mapping[page_id].last_edited ELSE NoTime

\* Mutant: every page is taken as changed.
need_update_Always(page, mapping) == TRUE

need_update(page, mapping) ==
    to_timestamp(page.last_edited_time) # to_timestamp(LastEditedIn(mapping, page.id))

SyncItem(page, tg_post_id) ==
    [title |-> page.title[1], notion_url |-> NotionUrl(page.id),
     tg_url |-> TgUrl(tg_post_id), dt |-> page.last_edited_time]

\* End of one iteration of the per-page loop.
NextPage(st, items) ==
    /\ current_page_ids' = current_page_ids \cup {Cur.id}
    /\ pinned' = st.pinned
    /\ chat' = st.chat
    /\ calls' = st.calls
    /\ sync_data' = sync_data \o items
    /\ idx' = idx + 1
    /\ UNCHANGED <<store, pc, pages, unawaited, prior>>
    /\ UNCHANGED envVars
    /\ UNCHANGED pureVars

\* title[0] of an untitled page raises IndexError: caught per page.
PageRaises ==
    /\ InLoop
    /\ ~HasTitle
    /\ NextPage(BotState, <<>>)

SkipPage ==
    /\ InLoop
    /\ HasTitle
    /\ IsSkipped(CurTitle)
    /\ NextPage(BotState, <<>>)

NoSyncNeeded ==
    /\ InLoop
    /\ HasTitle
    /\ ~IsSkipped(CurTitle)
    /\ ~need_update(Cur, pinned)
    /\ NextPage(BotState, <<SyncItem(Cur, MessageIdIn(pinned, Cur.id))>>)

NeedsSync ==
    /\ InLoop
    /\ HasTitle
    /\ ~IsSkipped(CurTitle)
    /\ need_update(Cur, pinned)

\* Telegram accepts no more than MaxMsgId messages.
CanSend(outcome) == outcome = "send_fails" \/ chat < MaxMsgId

SyncByEdit ==
    /\ NeedsSync
    /\ MessageIdIn(pinned, Cur.id) # NoMsg
    /\ \E fetched \in BOOLEAN :
        LET message == Message(CurTitle, get_page_content(fetched, Blocks(Cur.id)))
            st == edit_and_pin(Fetched(BotState, Cur.id, fetched), Cur.id,
                               MessageIdIn(pinned, Cur.id), message,
                               Cur.last_edited_time, "ok")
        IN  NextPage(st, <<SyncItem(Cur, MessageIdIn(st.pinned, Cur.id))>>)

SyncByFallback ==
    /\ NeedsSync
    /\ MessageIdIn(pinned, Cur.id) # NoMsg
    /\ \E fetched \in BOOLEAN,
          e \in EditOutcomes \ {"ok"}, c \in CreateOutcomes :
        /\ CanSend(c)
        /\ LET message == Message(CurTitle, get_page_content(fetched, Blocks(Cur.id)))
               tried == edit_and_pin(Fetched(BotState, Cur.id, fetched), Cur.id,
                                     MessageIdIn(pinned, Cur.id), message,
                                     Cur.last_edited_time, e)
               st == create_post(tried, Cur.id, message, Cur.last_edited_time, c)
           IN  NextPage(st, <<SyncItem(Cur, MessageIdIn(st.pinned, Cur.id))>>)

SyncByCreate ==
    /\ NeedsSync
    /\ MessageIdIn(pinned, Cur.id) = NoMsg
    /\ \E fetched \in BOOLEAN, c \in CreateOutcomes :
        /\ CanSend(c)
        /\ LET message == Message(CurTitle, get_page_content(fetched, Blocks(Cur.id)))
               st == create_post(Fetched(BotState, Cur.id, fetched), Cur.id, message,
                                 Cur.last_edited_time, c)
           IN  NextPage(st, <<SyncItem(Cur, MessageIdIn(st.pinned, Cur.id))>>)

\* cleanup_posts is a plain function: the coroutines it makes of
\* unpin_chat_message and delete_message are never awaited (every other bot
\* call of the file is awaited), so no request leaves the process and neither
\* call can raise; the entry is then deleted from pinned.
RECURSIVE Discarded(_, _, _)
Discarded(order, mapping, current_ids) ==
    IF order = <<>> THEN <<>>
    ELSE (IF Head(order) \in DOMAIN mapping /\ Head(order) \notin current_ids
          THEN << [op |-> "unpin_chat_message", page |-> Head(order),
                   message_id |-> mapping[Head(order)].message_id],
                  [op |-> "delete_message", page |-> Head(order),
                   message_id |-> mapping[Head(order)].message_id] >>
          ELSE <<>>) \o Discarded(Tail(order), mapping, current_ids)

cleanup_posts(mapping, current_ids) ==
    [q \in DOMAIN mapping \cap current_ids |-> mapping[q]]

\* The end of sync: cleanup_posts, then, if sync_data is not empty,
\* update_sync_database and the reload of pinned.
CleanupAndPersist ==
    /\ pc = "loop"
    /\ idx > Len(pages)
    /\ sync_data # <<>>
    /\ unawaited' = Discarded(PageOrder, pinned, current_page_ids)
    /\ store' = update_sync_database(store, sync_data)
    /\ pinned' = get_sync_db_mapping(store')
    /\ pc' = "done"
    /\ UNCHANGED <<chat, pages, idx, current_page_ids, sync_data, calls, prior>>
    /\ UNCHANGED envVars
    /\ UNCHANGED pureVars

CleanupOnly ==
    /\ pc = "loop"
    /\ idx > Len(pages)
    /\ sync_data = <<>>
    /\ unawaited' = Discarded(PageOrder, pinned, current_page_ids)
    /\ pinned' = cleanup_posts(pinned, current_page_ids)
    /\ pc' = "done"
    /\ UNCHANGED <<store, chat, pages, idx, current_page_ids, sync_data, calls, prior>>
    /\ UNCHANGED envVars
    /\ UNCHANGED pureVars

\* sync returns: its locals are gone.
Return ==
    /\ pc = "done"
    /\ pc' = "idle"
    /\ pages' = <<>>
    /\ idx' = 1
    /\ current_page_ids' = {}
    /\ sync_data' = <<>>
    /\ calls' = <<>>
    /\ unawaited' = <<>>
    /\ prior' = pinned
    /\ stable' = (pages = get_first_level_pages(TRUE))
    /\ UNCHANGED <<source, store, pinned, chat>>
    /\ UNCHANGED pureVars

Next ==
    \/ \E p \in Pages : AddPage(p)
    \/ \E p \in Pages : RemovePage(p)
    \/ \E p \in Pages : EditPage(p)
    \/ \E p \in Pages : RenamePage(p)
    \/ Restart
    \/ ListPages
    \/ ListPagesFails
    \/ PageRaises
    \/ SkipPage
    \/ NoSyncNeeded
    \/ SyncByEdit
    \/ SyncByFallback
    \/ SyncByCreate
    \/ CleanupAndPersist
    \/ CleanupOnly
    \/ Return

Spec == Init /\ [][Next]_vars

TypeOK ==
    /\ pc \in {"idle", "loop", "done"}
    /\ DOMAIN pinned \subseteq Pages
    /\ \A q \in DOMAIN pinned : pinned[q].message_id \in 0..chat
    /\ current_page_ids \subseteq Pages

\* ------------------------------------------- functions applied on their own
\* The renderer and the change test are functions of their arguments: here
\* each is applied once to an argument drawn from a bounded set, while the bot
\* stays as constructed.
Alphabet == {"a", "@", "_", "."}
Texts == UNION {[1..n -> Alphabet] : n \in 0..MaxLen}

\* The text runs: every text, with or without a link, under every combination
\* of the five annotations.
Runs ==
    [plain_text : Texts, href : {<<>>, <<"u">>}, bold : BOOLEAN, italic : BOOLEAN,
     strikethrough : BOOLEAN, code : BOOLEAN, underline : BOOLEAN]

RichTextInputs ==
    [kind : {"rich_text"}, rich_text : {<<r>> : r \in Runs}, escape : BOOLEAN]

CodeBlock(text) == [type |-> "code", rich_text |-> <<Run(text)>>, language |-> <<"c">>]

CellTexts == {<<"a">>, <<"b", ".">>}
Cells == {<<Run(t)>> : t \in CellTexts}
TableRows ==
    {[type |-> "table_row", cells |-> c] :
        c \in UNION {[1..n -> Cells] : n \in 1..MaxCells}}
Tables ==
    {[type |-> "table", children |-> rows, children_ok |-> ok] :
        rows \in UNION {[1..n -> TableRows] : n \in 0..MaxTableRows},
        ok \in BOOLEAN}

BlockInputs ==
    [kind : {"block"}, block : {CodeBlock(t) : t \in Texts} \cup Tables \cup TableRows]

\* The blocks of a page: blocks that render, and blocks whose rendering
\* raises (no type, no payload, a callout without icon, a toggle or a table
\* whose children cannot be fetched, a table with a row without cells).
Heading(text) == [type |-> "heading_1", rich_text |-> <<Run(text)>>]
Divider == [type |-> "divider"]
Toggle(text, children, ok) ==
    [type |-> "toggle", rich_text |-> <<Run(text)>>, children |-> children,
     children_ok |-> ok]
NoPayload == [type |-> "paragraph"]
NoType == [id |-> "b1"]
NoIcon == [type |-> "callout", rich_text |-> <<Run(<<"a">>)>>]
BadRowTable ==
    [type |-> "table", children |-> <<[type |-> "table_row"]>>, children_ok |-> TRUE]

RaisingBlocks ==
    {NoPayload, NoType, NoIcon, Toggle(<<"t">>, <<>>, FALSE),
     [type |-> "table", children |-> <<>>, children_ok |-> FALSE], BadRowTable}

RenderingBlocks ==
    {Paragraph(<<"a">>), Heading(<<"b">>), Divider,
     Toggle(<<"t">>, <<>>, TRUE),
     Toggle(<<"t">>, <<Paragraph(<<"a">>)>>, TRUE),
     Toggle(<<"t">>, <<NoPayload, Paragraph(<<"a">>)>>, TRUE)}

PageInputs ==
    [kind : {"page"},
     blocks : UNION {[1..n -> RenderingBlocks \cup RaisingBlocks] : n \in 0..MaxBlocks}]

\* The change test of the per-page loop: the page's last_edited_time (absent,
\* rejected by the parser, or an epoch time) against a mapping that holds a
\* record of the page or none.
EmptyMapping == get_sync_db_mapping(<<>>)
PageTimes == {NoTime, BadTime} \cup (0..MaxTime)
Mappings ==
    {EmptyMapping} \cup
    {Put(EmptyMapping, "p1", [message_id |-> mid, last_edited |-> t]) :
        mid \in {NoMsg, 1}, t \in {BadTime} \cup (0..MaxTime)}

ChangeInputs ==
    [kind : {"change_test"},
     page : [id : {"p1"}, last_edited_time : PageTimes],
     mapping : Mappings]

\* What the per-page loop does with a page that is not excluded
\* (bot.py:332-372): nothing, an edit of the message of the record, or
\* create_post.
SyncDecision(page, mapping) ==
    IF ~need_update(page, mapping) THEN "keep"
    ELSE IF MessageIdIn(mapping, page.id) # NoMsg THEN "edit"
    ELSE "create"

PureInit ==
    /\ BotInit
    /\ input \in RichTextInputs \cup BlockInputs \cup ChangeInputs \cup PageInputs
    /\ output = NoOutput

Returned(value) ==
    /\ ~output.done
    /\ output' = [done |-> TRUE, value |-> value]
    /\ UNCHANGED input
    /\ UNCHANGED botVars

ApplyParseRichText ==
    /\ input.kind = "rich_text"
    /\ Returned(parse_rich_text(input.rich_text, input.escape))

ApplyParseBlock ==
    /\ input.kind = "block"
    /\ Returned(parse_block(input.block))

ApplyChangeTest ==
    /\ input.kind = "change_test"
    /\ Returned(SyncDecision(input.page, input.mapping))

\* get_page_content of a page whose block list was fetched.
ApplyGetPageContent ==
    /\ input.kind = "page"
    /\ Returned(get_page_content(TRUE, input.blocks))

PureNext ==
    \/ ApplyParseRichText
    \/ ApplyParseBlock
    \/ ApplyChangeTest
    \/ ApplyGetPageContent

PureSpec == PureInit /\ [][PureNext]_vars

\* ------------------------------------------------------------ observations
\* What a pass has done, read off the state at the end of the pass
\* (pc = "done": cleanup and persist are over, sync has not returned yet).
PassEnded == pc = "done"

ListedIdx(p) == {i \in 1..Len(pages) : pages[i].id = p}
Listed(p) == ListedIdx(p) # {}
PageRec(p) == pages[CHOOSE i \in ListedIdx(p) : TRUE]

CallsOf(ops, p) == {i \in 1..Len(calls) : calls[i].op \in ops /\ calls[i].page = p}
OkCallsOf(ops, p) == {i \in CallsOf(ops, p) : calls[i].ok}

\* Requests that change the chat.
TelegramMutations ==
    {i \in 1..Len(calls) :
        calls[i].op \in {"send_message", "edit_message_text", "pin_chat_message",
                         "unpin_chat_message", "delete_message"}}

RequestsFor(op, message_id) ==
    {i \in 1..Len(calls) : calls[i].op = op /\ calls[i].message_id = message_id}

\* Titles of the inputs that start with an exclusion prefix once stripped.
ExcludedTitles == {TitleDraft}

\* The page reaches the change test of the per-page loop.
Compared(p) ==
    /\ Listed(p)
    /\ PageRec(p).title # <<>>
    /\ PageRec(p).title[1] \notin ExcludedTitles

\* The change test of the pass was positive for the page.
Changed(p) ==
    /\ Compared(p)
    /\ to_timestamp(PageRec(p).last_edited_time) # to_timestamp(LastEditedIn(prior, p))

\* The destination holds the new content: a pin that succeeded follows the
\* edit or the send that succeeded.
DestinationUpdated(p) == OkCallsOf({"pin_chat_message"}, p) # {}

ActiveRowsOf(p) == {i \in ActiveIdx(store) : PageIdOf(store[i].notion_url) = p}

\* ----------------------------------------------------------------- claims
\* C1: when a pass detects a changed page and the destination update fails
\* (edit or pin fails and the fallback create_post fails too, or a first
\* create_post fails), the timestamp of the page in the mapping is not
\* advanced, so the next pass computes changed = true for the page again.
C1_FailedUpdateIsRetried ==
    PassEnded =>
        \A p \in Pages :
            (Changed(p) /\ ~DestinationUpdated(p)) =>
                /\ to_timestamp(LastEditedIn(pinned, p)) = to_timestamp(LastEditedIn(prior, p))
                /\ to_timestamp(PageRec(p).last_edited_time)
                       # to_timestamp(LastEditedIn(pinned, p))

EditFailed(p) ==
    \E i \in CallsOf({"edit_message_text", "pin_chat_message"}, p) :
        /\ ~calls[i].ok
        /\ calls[i].message_id = MessageIdIn(prior, p)

NewMessagesOf(p) == {calls[i].message_id : i \in OkCallsOf({"send_message"}, p)}

\* C3: for a changed page whose record holds a message identifier, when the
\* edit of that message or the pin that follows it fails, the pass creates a
\* new message, and after the pass the in-memory mapping and the active row of
\* the store reference the new message and not the old one.
C3_FallbackReferencesNewMessage ==
    PassEnded =>
        \A p \in Pages :
            (Changed(p) /\ MessageIdIn(prior, p) # NoMsg /\ EditFailed(p)) =>
                /\ NewMessagesOf(p) # {}
                /\ MessageIdIn(pinned, p) \in NewMessagesOf(p)
                /\ MessageIdIn(pinned, p) # MessageIdIn(prior, p)
                /\ \A i \in ActiveRowsOf(p) : MessageIdOf(store[i].tg_url) \in NewMessagesOf(p)

\* C4: for every identifier that is in the mapping when the pass starts and
\* is not in the page set of the pass, the pass sends exactly one unpin and
\* exactly one delete request for its message, and the identifier is not in
\* the in-memory mapping when the pass ends.
C4_CleanupSendsUnpinAndDelete ==
    PassEnded =>
        \A p \in DOMAIN prior :
            p \notin current_page_ids =>
                /\ Cardinality(RequestsFor("unpin_chat_message", prior[p].message_id)) = 1
                /\ Cardinality(RequestsFor("delete_message", prior[p].message_id)) = 1
                /\ p \notin DOMAIN pinned

\* C5: a page that has an active mapping record and is absent from the source
\* when a pass runs has, at the end of the pass, no active row in the store,
\* and its message has been unpinned and deleted; also when no page that is
\* not excluded remains.
C5_RemovedPageIsRetired ==
    PassEnded =>
        \A p \in Pages :
            ~source[p].present =>
                /\ ActiveRowsOf(p) = {}
                /\ p \in DOMAIN prior =>
                       /\ RequestsFor("unpin_chat_message", prior[p].message_id) # {}
                       /\ RequestsFor("delete_message", prior[p].message_id) # {}

EditSucceeded(p) ==
    \E i \in OkCallsOf({"edit_message_text"}, p) :
        calls[i].message_id = MessageIdIn(prior, p)

EditAndPinSucceeded(p) ==
    /\ EditSucceeded(p)
    /\ \E i \in OkCallsOf({"pin_chat_message"}, p) :
           calls[i].message_id = MessageIdIn(prior, p)

\* C6 as stated: a detected edit of a page whose record holds a message
\* identifier, and whose edit_message call succeeds, changes that message and
\* sends no send_message for the page.
C6_EditedPageIsNeverSent ==
    PassEnded =>
        \A p \in Pages :
            (Changed(p) /\ MessageIdIn(prior, p) # NoMsg /\ EditSucceeded(p)) =>
                CallsOf({"send_message"}, p) = {}

\* C6, amended: a detected edit of a page whose record holds a message
\* identifier, and whose edit_message call and the pin that follows it both
\* succeed, changes that message and sends no send_message for the page, and
\* the mapping keeps the reference to that message.
C6_EditedAndPinnedPageIsNotSent ==
    PassEnded =>
        \A p \in Pages :
            (Changed(p) /\ MessageIdIn(prior, p) # NoMsg /\ EditAndPinSucceeded(p)) =>
                /\ CallsOf({"send_message"}, p) = {}
                /\ Cardinality(CallsOf({"edit_message_text"}, p)) = 1
                /\ MessageIdIn(pinned, p) = MessageIdIn(prior, p)
                /\ \A i \in ActiveRowsOf(p) :
                       MessageIdOf(store[i].tg_url) = MessageIdIn(prior, p)

C6_EditWitness ==
    /\ PassEnded
    /\ \E p \in Pages :
           Changed(p) /\ MessageIdIn(prior, p) # NoMsg /\ EditAndPinSucceeded(p)

Unchanged(p) ==
    /\ Compared(p)
    /\ p \in DOMAIN prior
    /\ to_timestamp(PageRec(p).last_edited_time) = to_timestamp(prior[p].last_edited)

\* C7: in any pass, for a page whose normalized last-modified timestamp
\* equals the normalized timestamp of its record, the pass sends no edit and
\* no send for the page, carries the reference of the record into sync_data,
\* and the mapping entry of the page (message identifier and timestamp) is
\* after the pass what it was before.
C7_UnchangedPageIsNoOp ==
    PassEnded =>
        \A p \in Pages :
            Unchanged(p) =>
                /\ CallsOf({"edit_message_text", "send_message"}, p) = {}
                /\ \E i \in 1..Len(sync_data) :
                       /\ sync_data[i].notion_url = NotionUrl(p)
                       /\ MessageIdOf(sync_data[i].tg_url) = prior[p].message_id
                /\ p \in DOMAIN pinned
                /\ pinned[p].message_id = prior[p].message_id
                /\ to_timestamp(pinned[p].last_edited) = to_timestamp(prior[p].last_edited)

C7_UnchangedWitness ==
    /\ PassEnded
    /\ \E p \in Pages : Unchanged(p) /\ prior[p].message_id # NoMsg

ExcludedInPass(p) ==
    /\ Listed(p)
    /\ PageRec(p).title # <<>>
    /\ PageRec(p).title[1] \in ExcludedTitles

\* C8: a page whose title starts with an exclusion prefix causes no
\* send_message and no edit_message call in a pass, and the pass gives it no
\* mapping entry: none in the in-memory mapping and no active row of the store
\* that was not there when the pass started (the store is written by the last
\* step of the pass only).
C8_ExcludedPageStaysOut ==
    [][(pc = "loop" /\ pc' = "done") =>
        \A p \in Pages :
            ExcludedInPass(p) =>
                /\ CallsOf({"send_message", "edit_message_text"}, p) = {}
                /\ \A i \in 1..Len(sync_data) : sync_data[i].notion_url # NotionUrl(p)
                /\ p \in DOMAIN pinned' => (p \in DOMAIN prior /\ pinned'[p] = prior[p])
                /\ p \in ActivePages(store') => p \in ActivePages(store)]_vars

C8_ExcludedWitness ==
    /\ PassEnded
    /\ sync_data # <<>>
    /\ \E p \in Pages : ExcludedInPass(p)

Posted(p) ==
    \/ MessageIdIn(prior, p) # NoMsg
    \/ \E i \in OkCallsOf({"pin_chat_message"}, p) : calls[i].message_id = MessageIdIn(pinned, p)

\* C9: after any sequence of passes the store holds exactly one active row
\* for each page that has been posted and is still present (and not
\* excluded), and never two active rows for one page.
C9_OneActiveRowPerPostedPage ==
    PassEnded =>
        \A p \in Pages :
            /\ Cardinality(ActiveRowsOf(p)) <= 1
            /\ (source[p].present /\ source[p].title # <<TitleDraft>> /\ Posted(p)) =>
                   Cardinality(ActiveRowsOf(p)) = 1

Bold(title) == <<"*">> \o escape_markdown_v2(title) \o <<"*">>
BodyOf(p) == get_page_content(TRUE, Blocks(p))

FirstSync(p) ==
    /\ Compared(p)
    /\ p \notin DOMAIN prior
    /\ pages = get_first_level_pages(TRUE)
    /\ \A i \in 1..Len(calls) : calls[i].ok

SentAndRecorded(p, text) ==
    /\ Cardinality(CallsOf({"send_message"}, p)) = 1
    /\ Cardinality(CallsOf({"pin_chat_message"}, p)) = 1
    /\ CallsOf({"edit_message_text"}, p) = {}
    /\ \E i \in CallsOf({"send_message"}, p), j \in CallsOf({"pin_chat_message"}, p) :
           /\ i < j
           /\ calls[i].text = text
           /\ calls[i].message_id # NoMsg
           /\ calls[j].message_id = calls[i].message_id
           /\ p \in DOMAIN pinned
           /\ pinned[p].message_id = calls[i].message_id
           /\ pinned[p].last_edited = PageRec(p).last_edited_time
           /\ Cardinality(ActiveRowsOf(p)) = 1
           /\ \A r \in ActiveRowsOf(p) :
                  /\ MessageIdOf(store[r].tg_url) = calls[i].message_id
                  /\ store[r].date = PageRec(p).last_edited_time

FirstText(title, body) ==
    IF body = <<>> THEN Bold(title) ELSE Bold(title) \o <<"\n", "\n">> \o body

HelloWorld ==
    <<"*", "H", "e", "l", "l", "o", "*", "\n", "\n", "W", "o", "r", "l", "d">>

\* C10 as stated: for a page that is not excluded, with title T, rendered
\* body B and no mapping record, a pass with no collaborator failure sends
\* exactly one send_message whose text is the bold escaped title, a blank line
\* and B, then pins that message, and after the pass the mapping holds the new
\* message identifier and the last-modified timestamp of the page.
C10_FirstSyncSendsTitleBlankBody ==
    PassEnded =>
        \A p \in Pages :
            FirstSync(p) =>
                SentAndRecorded(p, Bold(PageRec(p).title[1]) \o <<"\n", "\n">> \o BodyOf(p))

\* C10, amended: the text is the bold escaped title, followed by a blank line
\* and B when B is not empty, and the bold escaped title alone when B is
\* empty; for the title Hello and one paragraph World it is *Hello*\n\nWorld.
C10_FirstSyncSendsTitleAndBody ==
    PassEnded =>
        \A p \in Pages :
            FirstSync(p) =>
                /\ SentAndRecorded(p, FirstText(PageRec(p).title[1], BodyOf(p)))
                /\ (PageRec(p).title[1] = TitleHello /\ Blocks(p) = BodyWorld) =>
                       SentAndRecorded(p, HelloWorld)

C10_FirstSyncWitness ==
    /\ PassEnded
    /\ FirstSync("p1")
    /\ PageRec("p1").title[1] = TitleHello
    /\ SentAndRecorded("p1", HelloWorld)

\* The characters the destination markup reserves.
SpecialChars ==
    {"_", "*", "[", "]", "(", ")", "~", GraveAccent, ">", "#", "+", "-", "=", "|",
     "{", "}", ".", "!"}

\* out holds, from position k + 1 on, the characters of text in order, each
\* special character preceded by a backslash.
RECURSIVE EscapedFrom(_, _, _)
EscapedFrom(out, k, text) ==
    IF text = <<>> THEN TRUE
    ELSE IF Head(text) \in SpecialChars
    THEN /\ k + 2 <= Len(out)
         /\ out[k + 1] = "\\"
         /\ out[k + 2] = Head(text)
         /\ EscapedFrom(out, k + 2, Tail(text))
    ELSE /\ k + 1 <= Len(out)
         /\ out[k + 1] = Head(text)
         /\ EscapedFrom(out, k + 1, Tail(text))

Backslashes(text) == Cardinality({i \in 1..Len(text) : text[i] = "\\"})

RanRichText == input.kind = "rich_text" /\ output.done
RanBlock == input.kind = "block" /\ output.done
TheRun == input.rich_text[1]

\* C11: the fragment rendered for a text run outside a table cell holds the
\* plain text of the run with every character of the set
\* _ * [ ] ( ) ~ ` > # + - = | { } . ! preceded by a backslash; the text
\* rendered for a table cell, and a table row as a whole, gets no backslash.
C11_RunsAreEscapedCellsAreNot ==
    /\ RanRichText =>
           IF input.escape
           THEN \E k \in 0..Len(output.value) :
                    EscapedFrom(output.value, k, TheRun.plain_text)
           ELSE Backslashes(output.value) = Backslashes(TheRun.plain_text)
    /\ (RanBlock /\ input.block.type = "table_row") => Backslashes(output.value) = 0

C11_EscapedWitness ==
    /\ RanRichText
    /\ input.escape
    /\ TheRun.plain_text = <<"_", ".">>
    /\ output.value = <<"\\", "_", "\\", ".">>

\* The marker of the first flag set in the order bold, italic, strikethrough,
\* code, underline; no marker when no flag is set.
StyleMarker(run) ==
    IF run.bold THEN <<"*">>
    ELSE IF run.italic THEN <<"_">>
    ELSE IF run.strikethrough THEN <<"~">>
    ELSE IF run.code THEN <<GraveAccent>>
    ELSE IF run.underline THEN <<"_", "_">>
    ELSE <<>>

Styled(run) == StyleMarker(run) # <<>>

\* The fragment of a run without the link wrapping [fragment](href).
Unlinked(out, run) ==
    IF run.href # <<>> THEN SubSeq(out, 2, Len(out) - Len(run.href) - 3) ELSE out

SpecialCount(text) == Cardinality({i \in 1..Len(text) : text[i] \in SpecialChars})

Opens(inner, marker) ==
    /\ Len(inner) >= Len(marker)
    /\ SubSeq(inner, 1, Len(marker)) = marker

Closes(inner, marker) ==
    /\ Len(inner) >= 2 * Len(marker)
    /\ SubSeq(inner, Len(inner) - Len(marker) + 1, Len(inner)) = marker

\* inner is the marker, the text (escaped or not) and the marker, and nothing
\* else.
CarriesOnly(inner, marker, text, escape) ==
    /\ Opens(inner, marker)
    /\ Closes(inner, marker)
    /\ Len(inner) = 2 * Len(marker) + Len(text) + (IF escape THEN SpecialCount(text) ELSE 0)
    /\ IF escape
       THEN EscapedFrom(inner, Len(marker), text)
       ELSE SubSeq(inner, Len(marker) + 1, Len(marker) + Len(text)) = text

\* C12: for every combination of the flags bold, italic, strikethrough, code
\* and underline, the fragment of the run carries exactly one style marker,
\* that of the first flag set in the order bold > italic > strikethrough >
\* code > underline, around the text of the run, and no marker when no flag is
\* set.
C12_OneMarkerByPrecedence ==
    RanRichText =>
        CarriesOnly(Unlinked(output.value, TheRun), StyleMarker(TheRun),
                    TheRun.plain_text, input.escape)

\* C19: with escaping enabled, the fragment of a run with a style flag opens
\* with the style marker and closes with the same marker, the closing marker
\* is not preceded by a backslash, and every backslash of the fragment escapes
\* a character of the plain text: the mention pass adds none to a marker.
C19_MarkersStayIntact ==
    (RanRichText /\ input.escape /\ Styled(TheRun)) =>
        LET inner == Unlinked(output.value, TheRun)
            marker == StyleMarker(TheRun)
        IN  /\ Opens(inner, marker)
            /\ Closes(inner, marker)
            /\ inner[Len(inner) - Len(marker)] # "\\"
            /\ EscapedFrom(inner, Len(marker), TheRun.plain_text)
            /\ Backslashes(inner) = SpecialCount(TheRun.plain_text)

\* sub occurs in out as a run of consecutive characters.
Contains(out, sub) ==
    \E k \in 0..Len(out) :
        /\ k + Len(sub) <= Len(out)
        /\ SubSeq(out, k + 1, k + Len(sub)) = sub

\* The text of a table: one line per row, in row order, each line the cell
\* texts of the row joined by " | ".
RECURSIVE RowLines(_)
RowLines(rows) ==
    IF rows = <<>> THEN <<>>
    ELSE (IF Len(rows) > 1 THEN JoinCells(Head(rows).cells) \o <<"\n">>
          ELSE JoinCells(Head(rows).cells)) \o RowLines(Tail(rows))

\* C20: the fragment rendered for a code block is a fenced block that holds
\* the text of the block, and the fragment rendered for a table whose rows
\* were fetched is a fenced block that holds one line per row, in row order,
\* each line the cell texts joined by " | ".
C20_FencedBlocksKeepContent ==
    RanBlock =>
        /\ input.block.type = "code" =>
               /\ Opens(output.value, <<GraveAccent, GraveAccent, GraveAccent>>)
               /\ Contains(output.value, parse_rich_text(input.block.rich_text, TRUE))
        /\ (input.block.type = "table" /\ input.block.children_ok) =>
               /\ Opens(output.value, <<GraveAccent, GraveAccent, GraveAccent>>)
               /\ Contains(output.value, RowLines(input.block.children))

\* The step that ends a pass: cleanup_posts, the persist and the reload.
EndStep == pc = "loop" /\ pc' = "done"

\* Identifiers whose row the persist step archives.
ArchivedByStep ==
    {PageIdOf(store[i].notion_url) :
        i \in {j \in 1..Len(store) : ~store[j].archived /\ store'[j].archived}}

\* Identifiers the cleanup step takes out of the in-memory mapping.
RemovedByCleanup == DOMAIN pinned \ current_page_ids

\* Identifiers the cleanup step retires: removed from the mapping, with an
\* unpin and a delete request sent for the message.
RetiredByStep ==
    {p \in RemovedByCleanup :
        /\ RequestsFor("unpin_chat_message", pinned[p].message_id) # {}
        /\ RequestsFor("delete_message", pinned[p].message_id) # {}}

\* C13: in every pass the set of identifiers whose row is archived by the
\* persist step equals the set of identifiers whose message is retired
\* (unpinned, deleted and removed from the in-memory mapping) by the cleanup
\* step.
C13_ArchiveAndCleanupAgree ==
    [][EndStep => ArchivedByStep = RetiredByStep]_vars

\* C14: when a pass ends, the in-memory mapping holds exactly the active
\* records of the store: the same identifiers, and for each the message
\* identifier and the timestamp of its active row.
C14_CacheEqualsStore ==
    PassEnded =>
        /\ DOMAIN pinned = ActivePages(store)
        /\ \A p \in DOMAIN pinned :
               \E i \in ActiveRowsOf(p) :
                   /\ MessageIdOf(store[i].tg_url) = pinned[p].message_id
                   /\ to_timestamp(store[i].date) = to_timestamp(pinned[p].last_edited)

\* The listing of the pass failed: the source holds pages and the pass got
\* none.
ListingFailed == pages = <<>> /\ get_first_level_pages(TRUE) # <<>>

CleanupRequests ==
    {i \in 1..Len(calls) : calls[i].op \in {"unpin_chat_message", "delete_message"}}

\* C15: a pass in which the listing of the source pages fails sends no unpin
\* and no delete request and removes no identifier from the in-memory mapping:
\* the mapping is after the pass what it was before.
C15_FailedListingRetiresNothing ==
    (PassEnded /\ ListingFailed) =>
        /\ CleanupRequests = {}
        /\ DOMAIN prior \subseteq DOMAIN pinned
        /\ pinned = prior

\* Processing the page raised in the per-page loop (title[0] of an untitled
\* page).
Raised(p) == Listed(p) /\ PageRec(p).title = <<>>

InSyncData(p) == \E i \in 1..Len(sync_data) : sync_data[i].notion_url = NotionUrl(p)

\* C16: when processing one page raises in the per-page loop, the page is
\* left out of sync_data, every other page of the pass that reaches the change
\* test still gets its item in sync_data, the pass still runs to its end, and
\* the record of the failing page is not lost: an identifier that was in the
\* mapping when the pass started is still there, unchanged, with an active row
\* in the store.
C16_FailingPageKeepsItsRecord ==
    PassEnded =>
        \A p \in Pages :
            Raised(p) =>
                /\ ~InSyncData(p)
                /\ \A q \in Pages \ {p} : Compared(q) => InSyncData(q)
                /\ p \in DOMAIN prior =>
                       /\ p \in DOMAIN pinned
                       /\ pinned[p] = prior[p]
                       /\ ActiveRowsOf(p) # {}

RanChangeTest == input.kind = "change_test" /\ output.done

\* C17: for a page that is not excluded and has no mapping record the change
\* test yields changed = true and the pass goes to the creation of a message,
\* whatever the last-modified timestamp of the page is, a missing or
\* unparsable value included.
C17_AbsentRecordForcesCreation ==
    (RanChangeTest /\ input.page.id \notin DOMAIN input.mapping) =>
        output.value = "create"

\* C18: applying the persist step a second time with the same sync_data
\* leaves the store as the first application left it: the same rows with the
\* same title, source reference, destination reference, timestamp and
\* archived flag, no row added and no further row archived.
C18_PersistTwiceIsPersistOnce ==
    [][(EndStep /\ sync_data # <<>>) =>
        update_sync_database(store', sync_data) = store']_vars

C18_PersistWitness ==
    /\ PassEnded
    /\ sync_data # <<>>
    /\ store = update_sync_database(store, sync_data)
    /\ \E i, j \in 1..Len(store) : store[i].archived /\ ~store[j].archived

RanPage == input.kind = "page" /\ output.done

\* The blocks of a list whose rendering does not fail, in order.
RECURSIVE Others(_)
Others(blocks) ==
    IF blocks = <<>> THEN <<>>
    ELSE (IF Head(blocks) \in RaisingBlocks THEN <<>> ELSE <<Head(blocks)>>)
         \o Others(Tail(blocks))

IsToggle(block) == "type" \in DOMAIN block /\ block.type = "toggle"

\* C21: when the rendering of a block of a page fails (malformed payload, or
\* a failing fetch of the children of a toggle or a table), the block gives an
\* empty fragment and the body of the page is the trimmed in-order
\* concatenation of the fragments of the other blocks, the same body as that
\* of the page without the failing blocks; the same holds for the children of
\* a toggle; the body is empty only if the other blocks render nothing.
C21_FailingBlockIsIsolated ==
    RanPage =>
        LET blocks == input.blocks
            rest == Others(blocks)
        IN  /\ \A i \in 1..Len(blocks) :
                   blocks[i] \in RaisingBlocks => parse_block(blocks[i]) = <<>>
            /\ output.value = Strip(JoinBlocks(rest))
            /\ output.value = get_page_content(TRUE, rest)
            /\ \A i \in 1..Len(rest) :
                   IsToggle(rest[i]) =>
                       parse_block(rest[i])
                           = parse_block([rest[i] EXCEPT !.children = Others(@)])
            /\ (\E i \in 1..Len(rest) : Strip(parse_block(rest[i])) # <<>>) =>
                   output.value # <<>>

C21_IsolationWitness ==
    /\ RanPage
    /\ input.blocks = <<Paragraph(<<"a">>), NoIcon, Heading(<<"b">>)>>
    /\ output.value = <<"a", "\n", "\n", "*", "b", "*">>

====
